---- MODULE Spec2Model ----
(***************************************************************************)
(* State-machine model of src/src/lib.rs (wasm-canvas): the exported       *)
(* pixel BUFFER, the atomic FRAME counter, the render entry point go()     *)
(* with its pixel loop render_frame_safe, the imported host function       *)
(* js_sin, the constant query the_answer() and the panic handler.          *)
(*                                                                         *)
(* A u32 is kept at its full width of 32 bits as the pair of its top byte  *)
(* and its low 24 bits: [hi |-> 0..255, lo |-> 0..2^24-1] stands for       *)
(* hi * 2^24 + lo.  An f32 is a record [k, n]: k is "nan", "pinf", "ninf"  *)
(* or "fin", and a finite value is n halves (n / 2), rounded as f32        *)
(* rounds (24-bit significand, ties to even).                              *)
(***************************************************************************)
EXTENDS Integers, Sequences, FiniteSets, TLC

\* ------------------------------------------------------------------ bounds
\* The grid of the model (600 x 600 in the source, scaled down).
WIDTH == 2
HEIGHT == 2
\* Calls to go() in one behaviour.
MaxCalls == 3
\* Calls to the_answer() in one behaviour.
MaxAnswers == 2

\* ------------------------------------------------------- program constants
\* The factor of the brightness terms: sin(..) * 255.
Gain == 255
\* The value the_answer() returns.
ANSWER == 42

\* The callers the host may run go() from.
Procs == {1, 2}

\* --------------------------------------------------------------- u32 words
LoMod == 2^24
HiMod == 2^8

U32(h, l) == [hi |-> h, lo |-> l]
Zero == U32(0, 0)
One == U32(0, 1)
U32Max == U32(HiMod - 1, LoMod - 1)
\* 0xFF_00_00_00
AlphaMask == U32(255, 0)

\* A small natural number as a u32.
ToU32(n) == U32((n \div LoMod) % HiMod, n % LoMod)

\* A faulty variant of wrapping_add: the sum saturates at u32::MAX.
SaturatingAdd(a, b) ==
    LET s == a.lo + b.lo
        h == a.hi + b.hi + (s \div LoMod)
    IN  IF h >= HiMod THEN U32Max ELSE U32(h, s % LoMod)

\* u32::wrapping_add: the sum modulo 2^32.
WrappingAdd(a, b) ==
    LET s == a.lo + b.lo
    IN  U32((a.hi + b.hi + (s \div LoMod)) % HiMod, s % LoMod)

\* Bitwise or of two naturals.
RECURSIVE BitOrN(_, _)
BitOrN(a, b) ==
    IF a = 0 THEN b
    ELSE IF b = 0 THEN a
    ELSE (IF a % 2 = 1 \/ b % 2 = 1 THEN 1 ELSE 0) + 2 * BitOrN(a \div 2, b \div 2)

\* A faulty variant of `|`: the mask is added (wrapping) instead of or-ed.
U32Plus(a, b) == WrappingAdd(a, b)

\* The operator `|` on u32.
U32Or(a, b) == U32(BitOrN(a.hi, b.hi), BitOrN(a.lo, b.lo))

\* --------------------------------------------------------------- f32 values
NaN == [k |-> "nan", n |-> 0]
PosInf == [k |-> "pinf", n |-> 0]
NegInf == [k |-> "ninf", n |-> 0]
Fin(m) == [k |-> "fin", n |-> m]

Abs(m) == IF m < 0 THEN -m ELSE m

\* The spacing (in halves) of the f32 values around a magnitude of a halves.
RECURSIVE Ulp(_, _)
Ulp(a, u) == IF a < LoMod * u THEN u ELSE Ulp(a, 2 * u)

\* Round m halves to the nearest f32, ties to the even significand.
RoundF32(m) ==
    LET a == Abs(m)
        u == Ulp(a, 1)
        q == a \div u
        r == a % u
        up == \/ 2 * r > u
              \/ (2 * r = u /\ q % 2 = 1)
        ra == IF up THEN (q + 1) * u ELSE q * u
    IN  IF m < 0 THEN -ra ELSE ra

\* f32 * 255.
F32MulGain(v) ==
    IF v.k = "fin" THEN Fin(RoundF32(v.n * Gain)) ELSE v

\* f32 + f32.
F32Add(v, w) ==
    IF v.k = "nan" \/ w.k = "nan" THEN NaN
    ELSE IF v.k = "fin" /\ w.k = "fin" THEN Fin(RoundF32(v.n + w.n))
    ELSE IF v.k = "fin" THEN w
    ELSE IF w.k = "fin" THEN v
    ELSE IF v.k = w.k THEN v
    ELSE NaN

\* `v as u32`: truncation toward zero, saturating, NaN to 0.
AsU32(v) ==
    IF v.k = "nan" \/ v.k = "ninf" THEN Zero
    ELSE IF v.k = "pinf" THEN U32Max
    ELSE IF v.n <= 0 THEN Zero
    ELSE LET t == v.n \div 2
         IN  IF t \div LoMod >= HiMod THEN U32Max
             ELSE U32(t \div LoMod, t % LoMod)

\* The values the host function returns in the model: NaN, the infinities,
\* 0.0, 0.5, 1.0, -1.0 and 65536.5 (whose product with 255 is rounded).
HostVals == {NaN, PosInf, NegInf, Fin(0), Fin(1), Fin(2), Fin(-2), Fin(131073)}
\* The values of the host function in the overlapping-calls specification.
HostValsConc == {Fin(1), PosInf}

\* The arguments render_frame_safe passes to sin: x in 0..WIDTH-1, y in 0..HEIGHT-1.
SinArgs == 0 .. ((IF WIDTH > HEIGHT THEN WIDTH ELSE HEIGHT) - 1)

\* The values of FRAME go() is started from where wrapping matters:
\* 0x00FFFFFF (a carry into the top byte), 2^32 - 2 and 2^32 - 1.
StartFrames == {U32(0, LoMod - 1), U32(HiMod - 1, LoMod - 2), U32Max}
\* The same for the overlapping-calls specification: 0 and 2^32 - 2.
StartFramesConc == {Zero, U32(HiMod - 1, LoMod - 2)}

Cells == 0 .. (WIDTH * HEIGHT - 1)

VARIABLES
    FRAME,     \* static FRAME: AtomicU32
    BUFFER,    \* static mut BUFFER: [u32; WIDTH * HEIGHT]
    js_sin,    \* the host's implementation of the import js_sin: any
               \* function of its argument, fixed for the behaviour
    pc,        \* per caller: "idle", "render" (inside go) or "panicked"
    f,         \* per caller: the local f of render_frame_safe
    x, y,      \* per caller: the loop variables of render_frame_safe
    captured,  \* history: the values fetch_add returned, in order
    writes,    \* history, per caller: the indices written by its current call
    start,     \* history: the value of FRAME the behaviour started from
    ret,       \* the value the last call to the_answer returned (0: none yet)
    answers    \* history: the number of calls to the_answer

vars == <<FRAME, BUFFER, js_sin, pc, f, x, y, captured, writes, start, ret, answers>>

\* fn sin(x: f32) -> f32 { unsafe { js_sin(x) } }
sin(a) == js_sin[a]

\* let v = sin(x as f32) * 255. + sin(y as f32) * 255.;
Brightness(px, py) == F32Add(F32MulGain(sin(px)), F32MulGain(sin(py)))

\* A faulty variant of the pixel: the live counter is read instead of the captured f.
PixelValueLive(fr, px, py) ==
    U32Or(WrappingAdd(FRAME, AsU32(Brightness(px, py))), AlphaMask)

\* A faulty variant of the pixel: the frame index is not added.
PixelValueNoFrame(fr, px, py) ==
    U32Or(AsU32(Brightness(px, py)), AlphaMask)

\* f.wrapping_add(v as u32) | 0xFF_00_00_00
PixelValue(fr, px, py) ==
    U32Or(WrappingAdd(fr, AsU32(Brightness(px, py))), AlphaMask)

\* A faulty variant of the index: off by one.
IndexOffByOne(px, py) == py * WIDTH + px + 1

\* y * WIDTH + x
Index(px, py) == py * WIDTH + px

\* Faulty variants of fetch_add: the new value is returned; nothing is added; the
\* counter saturates.
add_fetch(frame) ==
    [old |-> WrappingAdd(frame, One), new |-> WrappingAdd(frame, One)]
fetch_load(frame) == [old |-> frame, new |-> frame]
fetch_add_saturating(frame) == [old |-> frame, new |-> SaturatingAdd(frame, One)]

\* FRAME.fetch_add(1, Ordering::Relaxed): the old value, and the new counter.
fetch_add(frame) == [old |-> frame, new |-> WrappingAdd(frame, One)]

AllIdle == \A p \in Procs : pc[p] = "idle"

\* The frame index before fr: fr - 1 modulo 2^32.
PrevFrame(fr) ==
    IF fr.lo > 0 THEN U32(fr.hi, fr.lo - 1)
    ELSE U32((fr.hi + HiMod - 1) % HiMod, LoMod - 1)

\* The state between two calls when the counter is one of frames and the
\* host function takes its values in hostvals: BUFFER is all zero before
\* the first call, and afterwards what the previous call left in it.
InitWith(frames, hostvals) ==
    /\ FRAME \in frames
    /\ start = FRAME
    /\ js_sin \in [SinArgs -> hostvals]
    /\ BUFFER = [i \in Cells |->
                    IF FRAME = Zero THEN Zero
                    ELSE PixelValue(PrevFrame(FRAME), i % WIDTH, i \div WIDTH)]
    /\ pc = [p \in Procs |-> "idle"]
    /\ f = [p \in Procs |-> Zero]
    /\ x = [p \in Procs |-> 0]
    /\ y = [p \in Procs |-> 0]
    /\ captured = << >>
    /\ writes = [p \in Procs |-> << >>]
    /\ ret = 0
    /\ answers = 0

\* The module as instantiated: FRAME = 0, BUFFER all zero.
Init == InitWith({Zero}, HostVals)
\* The module after the calls that bring FRAME to a value of StartFrames.
InitWrap == InitWith(StartFrames, HostVals)
InitConc == InitWith(StartFramesConc, HostValsConc)

\* go(): takes &mut BUFFER without any check and enters render_frame_safe,
\* whose first statement is the fetch_add.
go(p) ==
    /\ pc[p] = "idle"
    /\ Len(captured) < MaxCalls
    /\ LET r == fetch_add(FRAME)
       IN  /\ f' = [f EXCEPT ![p] = r.old]
           /\ FRAME' = r.new
           /\ captured' = Append(captured, r.old)
    /\ pc' = [pc EXCEPT ![p] = "render"]
    /\ x' = [x EXCEPT ![p] = 0]
    /\ y' = [y EXCEPT ![p] = 0]
    /\ writes' = [writes EXCEPT ![p] = << >>]
    /\ UNCHANGED <<BUFFER, js_sin, start, ret, answers>>

\* The host calls go() only while no other call is executing.
js_call_go(p) == AllIdle /\ go(p)

\* One iteration of the loops of render_frame_safe: the bounds-checked store
\* buffer[y * WIDTH + x] = ..., then the step of x and y; the call returns
\* after the last iteration.  An index out of bounds panics.
render_pixel(p) ==
    /\ pc[p] = "render"
    /\ LET idx == Index(x[p], y[p])
       IN  IF idx \in DOMAIN BUFFER
           THEN /\ BUFFER' = [BUFFER EXCEPT ![idx] = PixelValue(f[p], x[p], y[p])]
                /\ writes' = [writes EXCEPT ![p] = Append(@, idx)]
                /\ IF x[p] + 1 < WIDTH
                   THEN /\ x' = [x EXCEPT ![p] = @ + 1]
                        /\ UNCHANGED <<y, pc>>
                   ELSE /\ x' = [x EXCEPT ![p] = 0]
                        /\ y' = [y EXCEPT ![p] = @ + 1]
                        /\ pc' = [pc EXCEPT ![p] =
                                    IF y[p] + 1 < HEIGHT THEN "render" ELSE "idle"]
           ELSE /\ pc' = [pc EXCEPT ![p] = "panicked"]
                /\ UNCHANGED <<BUFFER, writes, x, y>>
    /\ UNCHANGED <<FRAME, js_sin, f, captured, start, ret, answers>>

\* A faulty variant of the_answer: it advances the frame counter.
the_answer_bump ==
    /\ answers < MaxAnswers
    /\ answers' = answers + 1
    /\ ret' = ANSWER
    /\ FRAME' = WrappingAdd(FRAME, One)
    /\ UNCHANGED <<BUFFER, js_sin, pc, f, x, y, captured, writes, start>>

\* pub extern fn the_answer() -> u32 { 42 }
the_answer ==
    /\ answers < MaxAnswers
    /\ answers' = answers + 1
    /\ ret' = ANSWER
    /\ UNCHANGED <<FRAME, BUFFER, js_sin, pc, f, x, y, captured, writes, start>>

\* Calls that do not overlap, from the initial state.
Next ==
    \/ \E p \in Procs : js_call_go(p)
    \/ \E p \in Procs : render_pixel(p)
    \/ the_answer

Spec == Init /\ [][Next]_vars

\* Calls that do not overlap, from the values of FRAME where it wraps.
SpecWrap == InitWrap /\ [][Next]_vars

\* Calls the host lets overlap.  The aliased &mut BUFFER is undefined
\* behaviour; what the build does is a store of one aligned 32-bit word per
\* loop iteration, so the calls interleave store by store and a cell holds
\* the word of whichever call stored to it last.
NextConc ==
    \/ \E p \in Procs : go(p)
    \/ \E p \in Procs : render_pixel(p)

SpecConc == InitConc /\ [][NextConc]_vars

\* ------------------------------------------------------------------ claims
Last(s) == s[Len(s)]
Xs == 0 .. (WIDTH - 1)
Ys == 0 .. (HEIGHT - 1)

\* a + n modulo 2^32, for a u32 a and a small natural n.
PlusN(a, n) == U32((a.hi + ((a.lo + n) \div LoMod)) % HiMod, (a.lo + n) % LoMod)

\* 0xFF000000 + (((fr + b) mod 2^32) mod 2^24), b the converted brightness
\* sum at (px, py).
ExpectedPixel(fr, px, py) ==
    U32(255, (fr.lo + AsU32(Brightness(px, py)).lo) % LoMod)

\* Some call has been made and no call is executing.
Returned == AllIdle /\ Len(captured) > 0

\* C1: from FRAME = 0 and with calls that do not overlap, the k-th call to
\* go() captures the frame index k-1, and after N calls FRAME equals N.
C1_FrameSequence ==
    /\ \A k \in 1 .. Len(captured) : captured[k] = ToU32(k - 1)
    /\ FRAME = ToU32(Len(captured))

C1_Witness == AllIdle /\ Len(captured) = 3 /\ FRAME = U32(0, 3)

\* C2: once a call to go() has returned, the top byte of every cell of
\* BUFFER is 0xFF, whatever frame index was captured and whatever the host
\* function returned.
C2_AlphaOpaque ==
    Returned => \A i \in Cells : BUFFER[i].hi = 255

\* A call has returned whose cell 0 is the or of the mask with a sum whose
\* top byte is 1: frame 0x00FFFFFF plus a brightness of 510.
C2_Witness ==
    /\ Returned
    /\ Last(captured) = U32(0, LoMod - 1)
    /\ js_sin[0] = Fin(2)
    /\ BUFFER[0] = U32(255, 509)

\* C3: after a call that did not overlap another and captured f, the cell
\* at y * WIDTH + x is 0xFF000000 + (((f + b(x, y)) mod 2^32) mod 2^24).
C3_PixelFormula ==
    Returned =>
        \A px \in Xs, py \in Ys :
            BUFFER[py * WIDTH + px] = ExpectedPixel(Last(captured), px, py)

\* A call has returned whose sum f + b wrapped past 2^32: f = 2^32 - 1 and
\* a brightness of 510 at cell 0.
C3_Witness ==
    /\ Returned
    /\ Last(captured) = U32Max
    /\ js_sin[0] = Fin(2)
    /\ BUFFER[0] = U32(255, 509)

\* C4: a call to go() increments FRAME exactly once, by one, no step of the
\* pixel loop changes it, and after a call that did not overlap another
\* every cell is the pixel of the one frame index that call captured.
C4_OneIncrementPerCall ==
    /\ [][FRAME' = IF Len(captured') > Len(captured) THEN PlusN(FRAME, 1) ELSE FRAME]_vars
    /\ [](\A p \in Procs : pc[p] = "render" => FRAME = PlusN(f[p], 1))
    /\ [](Returned =>
            \E fr \in {Last(captured)} :
                \A px \in Xs, py \in Ys :
                    BUFFER[py * WIDTH + px] = ExpectedPixel(fr, px, py))

C4_Witness ==
    /\ Returned
    /\ Len(captured) = 2
    /\ FRAME = PlusN(start, 2)
    /\ \A px \in Xs, py \in Ys :
           BUFFER[py * WIDTH + px] = ExpectedPixel(PlusN(start, 1), px, py)

\* C5: a call to go() with FRAME = 2^32 - 1 does not reach the panic
\* handler, captures 2^32 - 1, leaves FRAME = 0, and its pixels are the
\* sums (2^32 - 1) + b wrapped modulo 2^32.
C5_CounterWraps ==
    /\ \A p \in Procs : pc[p] # "panicked"
    /\ (start = U32Max /\ Len(captured) >= 1) =>
          /\ captured[1] = U32Max
          /\ Len(captured) = 1 => FRAME = Zero
          /\ (Len(captured) = 1 /\ AllIdle) =>
                \A px \in Xs, py \in Ys :
                    LET b == AsU32(Brightness(px, py))
                    IN  BUFFER[py * WIDTH + px] = U32(255, (b.lo + LoMod - 1) % LoMod)

C5_Witness ==
    /\ start = U32Max
    /\ Len(captured) = 1
    /\ AllIdle
    /\ FRAME = Zero
    /\ js_sin[0] = Fin(2)
    /\ BUFFER[0] = U32(255, 509)

\* C6: every call to the_answer() returns 42 and leaves FRAME and BUFFER
\* unchanged, in any state of any sequence of calls.
C6_AnswerConstant ==
    /\ [][answers' # answers => (ret' = 42 /\ FRAME' = FRAME /\ BUFFER' = BUFFER)]_vars
    /\ [](answers < MaxAnswers => ENABLED the_answer)

\* the_answer() has been called twice, after a call to go() and during one.
C6_Witness ==
    /\ answers = 2
    /\ ret = 42
    /\ Len(captured) = 2
    /\ \E p \in Procs : pc[p] = "render" /\ Len(writes[p]) = 1

\* C7: with periodic(0) = 0, the first call to go() from the initial state
\* leaves cell (0,0) equal to 0xFF000000 and the second leaves it 0xFF000001.
C7_Scenario ==
    (js_sin[0] = Fin(0) /\ AllIdle) =>
        /\ Len(captured) = 1 => BUFFER[0] = U32(255, 0)
        /\ Len(captured) = 2 => BUFFER[0] = U32(255, 1)

C7_Witness ==
    /\ js_sin[0] = Fin(0)
    /\ AllIdle
    /\ Len(captured) = 2
    /\ BUFFER[0] = U32(255, 1)

\* C8: in any interleaving of n calls to go() started from FRAME = c, the
\* calls capture the pairwise distinct values c, c+1, ..., c+n-1 (mod 2^32)
\* and FRAME is c + n (mod 2^32).
C8_AtomicFetchAdd ==
    /\ \A k \in 1 .. Len(captured) : captured[k] = PlusN(start, k - 1)
    /\ \A j, k \in 1 .. Len(captured) : j # k => captured[j] # captured[k]
    /\ FRAME = PlusN(start, Len(captured))

\* Two calls overlap, on their way through the pixel loop, and the counter
\* has wrapped to 0 from 2^32 - 2.
C8_Witness ==
    /\ \A p \in Procs : pc[p] = "render" /\ Len(writes[p]) >= 1
    /\ Len(captured) = 2
    /\ start = U32(HiMod - 1, LoMod - 2)
    /\ FRAME = Zero

\* C9: every write index of a call lies in 0..WIDTH*HEIGHT-1, a call writes
\* the cells once each in row-major order, BUFFER always has WIDTH*HEIGHT
\* cells, and the panic handler is never reached.
C9_RowMajorInBounds ==
    /\ DOMAIN BUFFER = 0 .. (WIDTH * HEIGHT - 1)
    /\ \A p \in Procs :
          /\ pc[p] # "panicked"
          /\ Len(writes[p]) <= WIDTH * HEIGHT
          /\ \A i \in 1 .. Len(writes[p]) : writes[p][i] = i - 1
          /\ pc[p] = "render" => Len(writes[p]) = y[p] * WIDTH + x[p]
          /\ (pc[p] = "idle" /\ writes[p] # << >>) => Len(writes[p]) = WIDTH * HEIGHT

\* A second call has returned, having written every cell after the first.
C9_Witness ==
    /\ AllIdle
    /\ Len(captured) = 2
    /\ \E p \in Procs : writes[p] = [i \in 1 .. (WIDTH * HEIGHT) |-> i - 1]

\* C10: go() is not guarded; once overlapping calls have returned, every
\* cell is the pixel (top byte 0xFF) of the frame index captured by the last
\* call of one of the callers, and different cells may come from different
\* frame indices.
C10_OverlapCells ==
    Returned =>
        \A px \in Xs, py \in Ys :
            /\ BUFFER[py * WIDTH + px].hi = 255
            /\ \E p \in Procs :
                  /\ writes[p] # << >>
                  /\ BUFFER[py * WIDTH + px] = ExpectedPixel(f[p], px, py)

\* Two calls overlapped and have returned; cell 0 is of the first captured
\* frame index and the last cell of the second.
C10_Witness ==
    /\ AllIdle
    /\ Len(captured) = 2
    /\ \A p \in Procs : writes[p] # << >>
    /\ BUFFER[0] = ExpectedPixel(captured[1], 0, 0)
    /\ BUFFER[WIDTH * HEIGHT - 1] = ExpectedPixel(captured[2], WIDTH - 1, HEIGHT - 1)
    /\ BUFFER[0] # ExpectedPixel(captured[2], 0, 0)

====
